---- MODULE Spec2Model ----
(***************************************************************************)
(* Model of tsgo (src/tsgo.go): the type classifier typeContainsPointer,  *)
(* the diagnostic reporter printError, the scope-aware visitor             *)
(* visitor.Visit driven by ast.Walk, and the driver main.                  *)
(***************************************************************************)
EXTENDS Integers, Sequences, FiniteSets, TLC

VARIABLES
    input,      \* what the frontend yields per file: parse/check outcome, typed AST
    pc,         \* position of main
    files,      \* main's files slice
    i,          \* index of the parse loop
    j,          \* iteration of the type-check/walk loop
    heap,       \* the visitor objects allocated for the file being walked
    stack,      \* ast.Walk's recursion: one frame per node being walked
    output,     \* the lines printed to standard output
    visit,      \* the most recent call of visitor.Visit
    log,        \* the stages main has gone through, in order
    ct,         \* classifier run: the argument of typeContainsPointer
    cret,       \* classifier run: the value returned
    cdone       \* classifier run: has the call returned

vars == <<input, pc, files, i, j, heap, stack, output, visit, log, ct, cret, cdone>>

----------------------------------------------------------------------------
(* Resolved types (go/types).  A type is a record: k its dynamic Go type,  *)
(* b the kind of a *types.Basic, s its component types (the underlying     *)
(* type of a *types.Named, the field types of a *types.Struct).            *)

Ty(k) == [k |-> k, b |-> "", s |-> <<>>]
Basic(b) == [k |-> "Basic", b |-> b, s |-> <<>>]
Named(u) == [k |-> "Named", b |-> "", s |-> <<u>>]
Struct(fs) == [k |-> "Struct", b |-> "", s |-> fs]

\* the nil types.Type
NilType == Ty("nil")

Underlying(t) == t.s[1]
NumFields(t) == Len(t.s)
Field(t, n) == t.s[n]

\* the pair of results of typeContainsPointer
Verdict(c, w) == [contains |-> c, witness |-> w]

\* a final return that takes an unrecognised shape for a safe one
FallbackNotContained(t) == Verdict(FALSE, NilType)

\* the statement after the switch: reached by every type no case returns for
Fallback(t) == Verdict(TRUE, t)

\* the *types.Basic case: it returns only when the kind is not UnsafePointer,
\* otherwise control leaves the switch and reaches the final return
BasicCase(t) == IF t.b # "UnsafePointer" THEN Verdict(TRUE, t) ELSE Fallback(t)

RECURSIVE typeContainsPointer(_)
RECURSIVE StructCase(_, _)
RECURSIVE StructCaseFieldWitness(_, _)

\* a loop that reports the field's own type instead of the witness found in it
StructCaseFieldWitness(t, n) ==
    IF n > NumFields(t) THEN Verdict(FALSE, NilType)
    ELSE LET fieldType == Field(t, n)
             r == typeContainsPointer(fieldType)
         IN  IF r.contains THEN Verdict(TRUE, fieldType)
             ELSE StructCaseFieldWitness(t, n + 1)

\* the *types.Struct case: the loop over the fields from field n on
StructCase(t, n) ==
    IF n > NumFields(t) THEN Verdict(FALSE, NilType)
    ELSE LET fieldType == Field(t, n)
             r == typeContainsPointer(fieldType)
         IN  IF r.contains THEN Verdict(TRUE, r.witness)
             ELSE StructCase(t, n + 1)

\* the type switch of typeContainsPointer
typeContainsPointer(t) ==
    CASE t.k = "Array" -> Verdict(TRUE, t)
      [] t.k = "Basic" -> BasicCase(t)
      [] t.k = "Chan" -> Verdict(FALSE, NilType)
      [] t.k = "Interface" -> Verdict(FALSE, NilType)
      [] t.k = "Map" -> Verdict(TRUE, t)
      [] t.k = "Named" -> typeContainsPointer(Underlying(t))
      [] t.k = "Pointer" -> Verdict(TRUE, t)
      [] t.k = "Slice" -> Verdict(TRUE, t)
      [] t.k = "Struct" -> StructCase(t, 1)
      [] OTHER -> Fallback(t)

----------------------------------------------------------------------------
(* The types the classifier is run on.                                     *)

MaxFields == 3
MaxNestedFields == 1

SeqsUpTo(S, n) == UNION {[1..m -> S] : m \in 0..n}

LeafTypes ==
    {Ty("Array"), Basic("Int"), Basic("String"), Basic("UnsafePointer"), Ty("Chan"),
     Ty("Interface"), Ty("Map"), Ty("Pointer"), Ty("Slice"), Ty("Signature")}

FieldLeafTypes == {Ty("Chan"), Ty("Interface"), Ty("Pointer"), Basic("UnsafePointer")}

FieldTypes ==
    FieldLeafTypes \cup {Named(u) : u \in FieldLeafTypes}
        \cup {Struct(fs) : fs \in SeqsUpTo(FieldLeafTypes, MaxNestedFields)}

ClassifierTypes ==
    LeafTypes \cup {Named(u) : u \in LeafTypes}
        \cup {Named(Named(u)) : u \in LeafTypes}
        \cup {Struct(fs) : fs \in SeqsUpTo(FieldTypes, MaxFields)}

----------------------------------------------------------------------------
(* Syntax trees (go/ast) with the type information of types.Info.  A node  *)
(* is a record: kind its Go type, tok the token of a GenDecl, names the    *)
(* number of names a ValueSpec declares, type what info.TypeOf gives for   *)
(* an expression, kids its children in the order ast.Walk walks them.      *)
(* A node is identified by its path from the file node; a position is a    *)
(* path, and source order is the pre-order of paths.  Nodes that only wrap *)
(* (block, declaration statement, function type, declared identifiers)     *)
(* are left out: Visit has no case for them and they print nothing.        *)

Node(kind, tok, names, type, kids) ==
    [kind |-> kind, tok |-> tok, names |-> names, type |-> type, kids |-> kids]

Ident(t) == Node("Ident", "", 0, t, <<>>)
FuncLit(body) == Node("FuncLit", "", 0, Ty("Signature"), body)
CallExpr(fun, args) == Node("CallExpr", "", 0, NilType, <<fun>> \o args)
GoStmt(fun, args) == Node("GoStmt", "", 0, NilType, <<CallExpr(fun, args)>>)
SendStmt(value) == Node("SendStmt", "", 0, NilType, <<Ident(Ty("Chan")), value>>)
ValueSpec(names, values) == Node("ValueSpec", "", names, NilType, values)
GenDecl(tok, specs) == Node("GenDecl", tok, 0, NilType, specs)
FuncDecl(body) == Node("FuncDecl", "", 0, NilType, body)
File(decls) == Node("File", "", 0, NilType, decls)

RECURSIVE NodeAt(_, _)
NodeAt(root, path) ==
    IF path = <<>> THEN root ELSE NodeAt(root.kids[Head(path)], Tail(path))

\* info.TypeOf(e)
TypeOf(e) == e.type

\* n.Call.Fun and n.Call.Args of a GoStmt, n.Value of a SendStmt, n.Specs of a GenDecl
CallFun(n) == n.kids[1].kids[1]
CallArgs(n) == Tail(n.kids[1].kids)
ArgPos(pos, k) == pos \o <<1, k + 1>>
SendValue(n) == n.kids[2]
Specs(n) == n.kids
SpecPos(pos, k) == pos \o <<k>>

----------------------------------------------------------------------------
(* printError and stringifyNode.                                           *)

SendMessage == "sending pointer type over a channel"
GoOnMessage == "calling goroutine on a pointer type"
GoWithMessage == "calling goroutine with a pointer type"
GlobalVarMessage == "global var declared"

\* the source text printer.Fprint renders for the node: its syntax
stringifyNode(node) == <<node>>

\* the annotation is the type when one is given, the node's text otherwise;
\* the line carries the file and position fset.Position gives for the node
printError(out, file, pos, node, message, t) ==
    Append(out, [file |-> file, pos |-> pos, message |-> message,
                 type |-> t,
                 text |-> IF t # NilType THEN <<>> ELSE stringifyNode(node)])

----------------------------------------------------------------------------
(* visitor.Visit.  A visitor object is a heap cell [isInsideFunction]; v   *)
(* is the receiver's address.  Each case gives the visitor returned, the   *)
(* heap and the output after the call.                                     *)

Result(ret, hp, out) == [ret |-> ret, heap |-> hp, out |-> out]

SendStmtCase(v, f, n, pos, hp, out) ==
    LET r == typeContainsPointer(TypeOf(SendValue(n)))
    IN  Result(v, hp, IF r.contains
                      THEN printError(out, f, pos, n, SendMessage, r.witness)
                      ELSE out)

RECURSIVE GoArgsLoop(_, _, _, _, _)
RECURSIVE GoArgsLoopReversed(_, _, _, _, _)
RECURSIVE GoArgsLoopBreaks(_, _, _, _, _)

\* a loop that ranges over the arguments last to first
GoArgsLoopReversed(f, args, k, pos, out) ==
    IF k > Len(args) THEN out
    ELSE LET m == Len(args) + 1 - k
             r == typeContainsPointer(TypeOf(args[m]))
         IN  GoArgsLoopReversed(f, args, k + 1, pos,
                 IF r.contains
                 THEN printError(out, f, ArgPos(pos, m), args[m], GoWithMessage, r.witness)
                 ELSE out)

\* a loop that stops at the first finding
GoArgsLoopBreaks(f, args, k, pos, out) ==
    IF k > Len(args) THEN out
    ELSE LET r == typeContainsPointer(TypeOf(args[k]))
         IN  IF r.contains
             THEN printError(out, f, ArgPos(pos, k), args[k], GoWithMessage, r.witness)
             ELSE GoArgsLoopBreaks(f, args, k + 1, pos, out)

\* for _, arg := range n.Call.Args, from argument k on
GoArgsLoop(f, args, k, pos, out) ==
    IF k > Len(args) THEN out
    ELSE LET r == typeContainsPointer(TypeOf(args[k]))
         IN  GoArgsLoop(f, args, k + 1, pos,
                 IF r.contains
                 THEN printError(out, f, ArgPos(pos, k), args[k], GoWithMessage, r.witness)
                 ELSE out)

GoStmtCase(v, f, n, pos, hp, out) ==
    LET r == typeContainsPointer(TypeOf(CallFun(n)))
        out1 == IF r.contains
                THEN printError(out, f, pos, n, GoOnMessage, r.witness)
                ELSE out
    IN  Result(v, hp, GoArgsLoop(f, CallArgs(n), 1, pos, out1))

RECURSIVE SpecsLoop(_, _, _, _, _)
RECURSIVE SpecsLoopPerName(_, _, _, _, _)
RECURSIVE PrintTimes(_, _, _, _, _)

PrintTimes(out, f, pos, node, c) ==
    IF c = 0 THEN out
    ELSE PrintTimes(printError(out, f, pos, node, GlobalVarMessage, NilType),
                    f, pos, node, c - 1)

\* a loop that reports every declared name of every spec
SpecsLoopPerName(f, specs, k, pos, out) ==
    IF k > Len(specs) THEN out
    ELSE SpecsLoopPerName(f, specs, k + 1, pos,
             PrintTimes(out, f, SpecPos(pos, k), specs[k], specs[k].names))

\* for _, spec := range n.Specs, from spec k on
SpecsLoop(f, specs, k, pos, out) ==
    IF k > Len(specs) THEN out
    ELSE SpecsLoop(f, specs, k + 1, pos,
             printError(out, f, SpecPos(pos, k), specs[k], GlobalVarMessage, NilType))

GenDeclCase(v, f, n, pos, hp, out) ==
    IF ~hp[v].isInsideFunction /\ n.tok = "VAR"
    THEN Result(v, hp, SpecsLoop(f, Specs(n), 1, pos, out))
    ELSE Result(v, hp, out)

\* a case that sets the flag of the receiver itself and returns the receiver
FuncDeclCaseInPlace(v, f, n, pos, hp, out) ==
    Result(v, [hp EXCEPT ![v].isInsideFunction = TRUE], out)

\* newVisitor := *v; newVisitor.isInsideFunction = true; return &newVisitor
FuncDeclCase(v, f, n, pos, hp, out) ==
    LET newVisitor == [hp[v] EXCEPT !.isInsideFunction = TRUE]
    IN  Result(Len(hp) + 1, Append(hp, newVisitor), out)

\* the type switch of Visit; *ast.Ident has an empty case, any other node none
Visit(v, f, n, pos, hp, out) ==
    CASE n.kind = "SendStmt" -> SendStmtCase(v, f, n, pos, hp, out)
      [] n.kind = "GoStmt" -> GoStmtCase(v, f, n, pos, hp, out)
      [] n.kind = "GenDecl" -> GenDeclCase(v, f, n, pos, hp, out)
      [] n.kind = "FuncDecl" -> FuncDeclCase(v, f, n, pos, hp, out)
      [] n.kind = "Ident" -> Result(v, hp, out)
      [] OTHER -> Result(v, hp, out)

----------------------------------------------------------------------------
(* The driver main and ast.Walk.                                           *)

NoVisit == [file |-> 0, path |-> <<>>, kind |-> "", recv |-> 0, inside |-> FALSE, first |-> 1]

Event(stage, f) == [stage |-> stage, file |-> f]

\* the zero value of main's file struct
ZeroFile == [path |-> 0, node |-> 0]

\* a range loop that takes the elements last to first
RangeElemReversed(s, k) == s[Len(s) + 1 - k]

\* the element the k-th iteration of "for _, f := range files" takes
RangeElem(s, k) == s[k]

\* the tree f.node points to
Tree(f) == input[f.node].ast

Top == stack[Len(stack)]

Frame(path, v) == [path |-> path, v |-> v, next |-> 1]

Idle == /\ UNCHANGED <<input, ct, cret, cdone>>

\* build.ImportDir succeeds; files := make([]file, len(pkg.GoFiles))
ImportDir ==
    /\ pc = "import"
    /\ pc' = "parse"
    /\ files' = [k \in 1..Len(input) |-> ZeroFile]
    /\ i' = 1
    /\ UNCHANGED <<j, heap, stack, output, visit, log>>
    /\ Idle

\* build.ImportDir fails: panic(err)
ImportDirFails ==
    /\ pc = "import"
    /\ pc' = "panic"
    /\ UNCHANGED <<files, i, j, heap, stack, output, visit, log>>
    /\ Idle

\* one iteration of the parse loop, parser.ParseFile succeeding
ParseFile ==
    /\ pc = "parse"
    /\ i <= Len(files)
    /\ input[i].parse = "ok"
    /\ files' = [files EXCEPT ![i] = [path |-> i, node |-> i]]
    /\ i' = i + 1
    /\ log' = Append(log, Event("parse", i))
    /\ UNCHANGED <<pc, j, heap, stack, output, visit>>
    /\ Idle

\* one iteration of the parse loop, parser.ParseFile failing: panic(err)
ParseFileFails ==
    /\ pc = "parse"
    /\ i <= Len(files)
    /\ input[i].parse = "err"
    /\ pc' = "panic"
    /\ log' = Append(log, Event("parse", i))
    /\ UNCHANGED <<files, i, j, heap, stack, output, visit>>
    /\ Idle

\* the parse loop ends; cfg is made and the second loop begins
ParseLoopEnds ==
    /\ pc = "parse"
    /\ i > Len(files)
    /\ pc' = "check"
    /\ j' = 1
    /\ UNCHANGED <<files, i, heap, stack, output, visit, log>>
    /\ Idle

\* cfg.Check succeeds for the file of this iteration
CheckFile ==
    /\ pc = "check"
    /\ j <= Len(files)
    /\ LET f == RangeElem(files, j)
       IN  /\ input[f.node].check = "ok"
           /\ log' = Append(log, Event("check", f.path))
    /\ pc' = "checked"
    /\ UNCHANGED <<files, i, j, heap, stack, output, visit>>
    /\ Idle

\* a driver that goes on to walk the file although cfg.Check failed
CheckFileFailsIgnored ==
    /\ pc = "check"
    /\ j <= Len(files)
    /\ LET f == RangeElem(files, j)
       IN  /\ input[f.node].check = "err"
           /\ log' = Append(log, Event("check", f.path))
    /\ pc' = "checked"
    /\ UNCHANGED <<files, i, j, heap, stack, output, visit>>
    /\ Idle

\* cfg.Check fails: panic(err)
CheckFileFails ==
    /\ pc = "check"
    /\ j <= Len(files)
    /\ LET f == RangeElem(files, j)
       IN  /\ input[f.node].check = "err"
           /\ log' = Append(log, Event("check", f.path))
    /\ pc' = "panic"
    /\ UNCHANGED <<files, i, j, heap, stack, output, visit>>
    /\ Idle

\* ast.Walk(&visitor{fset: fset, info: info}, f.node): the visitor is made
\* with isInsideFunction false, and Walk calls Visit on the file node
WalkFile ==
    /\ pc = "checked"
    /\ LET f == RangeElem(files, j)
           hp == <<[info |-> f.path, isInsideFunction |-> FALSE]>>
           r == Visit(1, f.path, Tree(f), <<>>, hp, output)
       IN  /\ heap' = r.heap
           /\ output' = r.out
           /\ stack' = <<Frame(<<>>, r.ret)>>
           /\ visit' = [file |-> f.path, path |-> <<>>, kind |-> Tree(f).kind, recv |-> 1,
                        inside |-> hp[1].isInsideFunction, first |-> Len(output) + 1]
           /\ log' = Append(log, Event("traverse", f.path))
    /\ pc' = "walk"
    /\ UNCHANGED <<files, i, j>>
    /\ Idle

\* Walk reaches the next child of the node on top: Walk(v, child) calls
\* v.Visit(child) with the visitor Visit returned for the parent, and goes on
\* into the child with the visitor this call returns
WalkChild ==
    /\ pc = "walk"
    /\ stack # <<>>
    /\ LET f == RangeElem(files, j)
           parent == NodeAt(Tree(f), Top.path)
       IN  /\ Top.next <= Len(parent.kids)
           /\ LET pos == Top.path \o <<Top.next>>
                  n == parent.kids[Top.next]
                  r == Visit(Top.v, f.path, n, pos, heap, output)
              IN  /\ heap' = r.heap
                  /\ output' = r.out
                  /\ stack' = Append([stack EXCEPT ![Len(stack)].next = Top.next + 1],
                                     Frame(pos, r.ret))
                  /\ visit' = [file |-> f.path, path |-> pos, kind |-> n.kind, recv |-> Top.v,
                               inside |-> heap[Top.v].isInsideFunction,
                               first |-> Len(output) + 1]
    /\ UNCHANGED <<pc, files, i, j, log>>
    /\ Idle

\* the children of the node on top are done: Walk calls v.Visit(nil), which no
\* case of the switch matches, and returns to the walk of the parent
WalkReturns ==
    /\ pc = "walk"
    /\ Len(stack) > 1
    /\ Top.next > Len(NodeAt(Tree(RangeElem(files, j)), Top.path).kids)
    /\ stack' = SubSeq(stack, 1, Len(stack) - 1)
    /\ UNCHANGED <<pc, files, i, j, heap, output, visit, log>>
    /\ Idle

\* the walk of the file node returns to main: the iteration is over
WalkFileReturns ==
    /\ pc = "walk"
    /\ Len(stack) = 1
    /\ Top.next > Len(NodeAt(Tree(RangeElem(files, j)), Top.path).kids)
    /\ stack' = <<>>
    /\ heap' = <<>>
    /\ log' = Append(log, Event("walked", RangeElem(files, j).path))
    /\ j' = j + 1
    /\ pc' = "check"
    /\ UNCHANGED <<files, i, output, visit>>
    /\ Idle

\* the second loop ends and main returns
CheckLoopEnds ==
    /\ pc = "check"
    /\ j > Len(files)
    /\ pc' = "done"
    /\ UNCHANGED <<files, i, j, heap, stack, output, visit, log>>
    /\ Idle

Next ==
    \/ ImportDir
    \/ ImportDirFails
    \/ ParseFile
    \/ ParseFileFails
    \/ ParseLoopEnds
    \/ CheckFile
    \/ CheckFileFails
    \/ WalkFile
    \/ WalkChild
    \/ WalkReturns
    \/ WalkFileReturns
    \/ CheckLoopEnds

----------------------------------------------------------------------------
(* The inputs.                                                             *)

MaxFiles == 2
MaxDecls == 2
MaxNames == 2
MaxArgs == 2

ValTypes == {Ty("Pointer"), Ty("Chan")}
FunTypes == {Ty("Signature"), Named(Ty("Signature"))}

RECURSIVE Sum(_)
Sum(s) == IF s = <<>> THEN 0 ELSE Head(s) + Sum(Tail(s))

\* the ways a declaration of at most MaxNames names splits into specs
NameCounts == {c \in SeqsUpTo(1..MaxNames, MaxNames) : c # <<>> /\ Sum(c) <= MaxNames}

VarDecl(c) == GenDecl("VAR", [k \in 1..Len(c) |-> ValueSpec(c[k], <<>>)])
LocalVar == VarDecl(<<1>>)

\* var and const declarations, one of them initialised with a function literal
\* that declares a variable in its body
GenDecls ==
    {VarDecl(c) : c \in NameCounts}
        \cup {GenDecl("CONST", <<ValueSpec(1, <<Ident(Basic("Int"))>>)>>),
              GenDecl("VAR", <<ValueSpec(1, <<FuncLit(<<LocalVar>>)>>)>>)}

\* functions that declare variables in their body, directly or in the body of
\* a function literal they start as a goroutine
DeclFuncDecls ==
    {FuncDecl(<<>>), FuncDecl(<<GoStmt(FuncLit(<<LocalVar>>), <<>>)>>)}
        \cup {FuncDecl(<<VarDecl(<<n>>)>>) : n \in 1..MaxNames}

DeclAsts == {File(ds) : ds \in SeqsUpTo(GenDecls \cup DeclFuncDecls, MaxDecls)}

Args == SeqsUpTo({Ident(t) : t \in ValTypes}, MaxArgs)

\* go statements: any arguments to a named function; a function of a named
\* function type; a function literal that sends in its body, with one argument
GoStmts ==
    {GoStmt(Ident(Ty("Signature")), as) : as \in Args}
        \cup {GoStmt(Ident(Named(Ty("Signature"))), <<>>)}
        \cup {GoStmt(FuncLit(<<SendStmt(Ident(Ty("Pointer")))>>), as) :
                 as \in {a \in Args : Len(a) <= 1}}

SendStmts == {SendStmt(Ident(t)) : t \in ValTypes \cup {Named(Struct(<<Ty("Chan"), Ty("Slice")>>))}}

GoAsts ==
    {File(ds) : ds \in SeqsUpTo({LocalVar} \cup {FuncDecl(<<st>>) : st \in GoStmts \cup SendStmts},
                                MaxDecls)}

SampleAsts == {File(<<LocalVar>>), File(<<FuncDecl(<<SendStmt(Ident(Ty("Pointer")))>>)>>)}

FileInputs(asts) ==
    {[parse |-> o[1], check |-> o[2], ast |-> a] :
        o \in {<<"ok", "ok">>, <<"ok", "err">>, <<"err", "ok">>}, a \in asts}

NoVerdict == Verdict(FALSE, NilType)

InitWith(inp) ==
    /\ input = inp
    /\ pc = "import"
    /\ files = <<>>
    /\ i = 0
    /\ j = 0
    /\ heap = <<>>
    /\ stack = <<>>
    /\ output = <<>>
    /\ visit = NoVisit
    /\ log = <<>>
    /\ ct = NilType
    /\ cret = NoVerdict
    /\ cdone = FALSE

\* the driver on up to MaxFiles files
Init == \E inp \in SeqsUpTo(FileInputs(SampleAsts), MaxFiles) : InitWith(inp)

Spec == Init /\ [][Next]_vars

\* one file of declarations
InitDecl == \E inp \in FileInputs(DeclAsts) : InitWith(<<inp>>)

SpecDecl == InitDecl /\ [][Next]_vars

\* one file of functions that send and start goroutines
InitGo == \E inp \in FileInputs(GoAsts) : InitWith(<<inp>>)

SpecGo == InitGo /\ [][Next]_vars

\* one call of typeContainsPointer
InitClassify ==
    /\ input = <<>>
    /\ pc = "classify"
    /\ files = <<>>
    /\ i = 0
    /\ j = 0
    /\ heap = <<>>
    /\ stack = <<>>
    /\ output = <<>>
    /\ visit = NoVisit
    /\ log = <<>>
    /\ ct \in ClassifierTypes
    /\ cret = NoVerdict
    /\ cdone = FALSE

Classify ==
    /\ pc = "classify"
    /\ ~cdone
    /\ cret' = typeContainsPointer(ct)
    /\ cdone' = TRUE
    /\ UNCHANGED <<input, pc, files, i, j, heap, stack, output, visit, log, ct>>

NextClassify == Classify

SpecClassify == InitClassify /\ [][NextClassify]_vars

----------------------------------------------------------------------------
(* What the properties speak of.                                           *)

RECURSIVE IsPrefix(_, _)
IsPrefix(p, q) ==
    \/ p = <<>>
    \/ /\ q # <<>>
       /\ Head(p) = Head(q)
       /\ IsPrefix(Tail(p), Tail(q))

\* p comes no later than q in the pre-order, left-to-right traversal
RECURSIVE PreLE(_, _)
PreLE(p, q) ==
    \/ p = <<>>
    \/ /\ q # <<>>
       /\ \/ Head(p) < Head(q)
          \/ Head(p) = Head(q) /\ PreLE(Tail(p), Tail(q))

\* the node of the most recent Visit call and the lines that call printed
VisitedNode == NodeAt(input[visit.file].ast, visit.path)
Emitted == SubSeq(output, visit.first, Len(output))
EmittedWith(message) == SelectSeq(Emitted, LAMBDA d : d.message = message)

\* the number of names a declaration declares
RECURSIVE DeclaredNames(_)
DeclaredNames(specs) ==
    IF specs = <<>> THEN 0 ELSE Head(specs).names + DeclaredNames(Tail(specs))

\* the node at path lies in the body of a function declaration or literal
InFunctionBody(root, path) ==
    \E m \in 0..(Len(path) - 1) :
        NodeAt(root, SubSeq(path, 1, m)).kind \in {"FuncDecl", "FuncLit"}

\* the node at path is a function declaration or lies in one
UnderFuncDecl(root, path) ==
    \E m \in 0..Len(path) : NodeAt(root, SubSeq(path, 1, m)).kind = "FuncDecl"

\* the arguments, from argument k on, whose type classifies as containing indirection
RECURSIVE Offending(_, _)
Offending(args, k) ==
    IF k > Len(args) THEN <<>>
    ELSE (IF typeContainsPointer(TypeOf(args[k])).contains THEN <<k>> ELSE <<>>)
             \o Offending(args, k + 1)

\* the go statement an argument position belongs to
SpawnOf(pos) == SubSeq(pos, 1, Len(pos) - 2)

FileFailed(f) == input[f].parse = "err" \/ input[f].check = "err"

\* a struct of three fields of which the first does not classify as containing
\* indirection and the second and third do
StructABC(t) ==
    /\ t.k = "Struct"
    /\ NumFields(t) = 3
    /\ ~typeContainsPointer(Field(t, 1)).contains
    /\ typeContainsPointer(Field(t, 2)).contains
    /\ typeContainsPointer(Field(t, 3)).contains

----------------------------------------------------------------------------
(* The properties.                                                         *)

\* C1: for a scalar type of the raw-memory sub-kind (unsafe.Pointer),
\* typeContainsPointer returns contains = false with a null witness.
C1_UnsafePointerNotContained ==
    (cdone /\ ct.k = "Basic" /\ ct.b = "UnsafePointer") => cret = Verdict(FALSE, NilType)

\* C2 as stated: a variable declaration visited at file scope prints as many
\* "global var declared" lines as it declares names.
C2_OneDiagnosticPerName ==
    (visit.kind = "GenDecl" /\ ~visit.inside /\ VisitedNode.tok = "VAR")
        => Len(EmittedWith(GlobalVarMessage)) = DeclaredNames(Specs(VisitedNode))

\* C2 amended: a variable declaration visited at file scope prints as many
\* "global var declared" lines as it has specs, one at each spec in order,
\* however many names a spec declares.
C2_OneDiagnosticPerSpec ==
    (visit.kind = "GenDecl" /\ ~visit.inside /\ VisitedNode.tok = "VAR")
        => /\ Len(Emitted) = Len(Specs(VisitedNode))
           /\ \A k \in 1..Len(Emitted) :
                  /\ Emitted[k].message = GlobalVarMessage
                  /\ Emitted[k].pos = SpecPos(visit.path, k)

C2_Witness ==
    /\ visit.kind = "GenDecl" /\ ~visit.inside /\ VisitedNode.tok = "VAR"
    /\ \E k \in 1..Len(Specs(VisitedNode)) : Specs(VisitedNode)[k].names >= 2
    /\ Len(Emitted) = Len(Specs(VisitedNode))

\* C3: no "global var declared" line is ever printed for a variable declaration
\* that lies inside a function body, at any nesting depth.
C3_NoGlobalVarInsideFunctionBody ==
    \A k \in DOMAIN output :
        output[k].message = GlobalVarMessage
            => ~InFunctionBody(input[output[k].file].ast, output[k].pos)

C5_WitnessIsSecondField ==
    (cdone /\ StructABC(ct)) => cret = Verdict(TRUE, Field(ct, 2))

\* C5 amended: for such a struct the result is contains = true with the witness
\* that classifying B gives: B's type when B is a leaf shape, the witness found
\* inside B when B is a named alias or a nested struct.
C5_WitnessIsWitnessOfSecondField ==
    (cdone /\ StructABC(ct))
        => cret = Verdict(TRUE, typeContainsPointer(Field(ct, 2)).witness)

C5_Witness ==
    /\ cdone
    /\ StructABC(ct)
    /\ Field(ct, 2).k \in {"Named", "Struct"}
    /\ cret.contains
    /\ cret.witness # Field(ct, 2)

\* C6: the visit of a go statement prints one "calling goroutine with a pointer
\* type" line for each argument whose type classifies as containing indirection,
\* at that argument and with its witness, in argument order, and none for the
\* other arguments; the finding on the invoked function suppresses none.
C6_OneLinePerOffendingArgument ==
    visit.kind = "GoStmt"
        => LET args == CallArgs(VisitedNode)
               off == Offending(args, 1)
               with == EmittedWith(GoWithMessage)
           IN  /\ Len(with) = Len(off)
               /\ \A m \in 1..Len(off) :
                      /\ with[m].pos = ArgPos(visit.path, off[m])
                      /\ with[m].type = typeContainsPointer(TypeOf(args[off[m]])).witness

C6_Witness ==
    /\ visit.kind = "GoStmt"
    /\ Len(Offending(CallArgs(VisitedNode), 1)) >= 2
    /\ Len(EmittedWith(GoOnMessage)) = 1
    /\ Len(EmittedWith(GoWithMessage)) = Len(Offending(CallArgs(VisitedNode), 1))

\* C7: no line is ever printed for a file whose parsing or type-checking fails,
\* and once main has panicked no line is printed any more.
C7_NothingPrintedOnFailure ==
    /\ [](\A k \in DOMAIN output : ~FileFailed(output[k].file))
    /\ [][pc = "panic" => output' = output]_vars

C7_Witness ==
    /\ pc = "panic"
    /\ output # <<>>
    /\ \E f \in DOMAIN input : input[f].parse = "ok" /\ input[f].check = "err"

\* C8 as stated: every stage of a file comes before any stage, parsing
\* included, of the file after it.
C8_FileAfterFile ==
    \A a, b \in DOMAIN log : a < b => log[a].file <= log[b].file

\* C8 amended: every file is parsed, in order, before any file is type-checked;
\* from then on type-check, traversal and report of a file come before those of
\* the file after it.
C8_ParseAllThenFileAfterFile ==
    /\ \A a, b \in DOMAIN log :
           a < b => IF log[a].stage = "parse"
                    THEN log[b].stage = "parse" => log[a].file < log[b].file
                    ELSE log[b].stage # "parse" /\ log[a].file <= log[b].file
    /\ \A a, b \in DOMAIN output : a < b => output[a].file <= output[b].file

C8_Witness ==
    \E a, b, c \in DOMAIN log :
        /\ a < b /\ b < c
        /\ log[a] = Event("parse", 2)
        /\ log[b] = Event("walked", 1)
        /\ log[c] = Event("check", 2)
        /\ output # <<>>

\* C9: entering a function declaration never changes the flag of the visitor
\* it is entered from: during a walk the visitor in use at a node has the flag
\* set exactly when the node is a function declaration or lies in one, so the
\* file-level visitor's flag stays false, and a top-level variable declaration,
\* also one after function declarations, is reported once per spec.
C9_ParentFlagUnchanged ==
    pc = "walk"
        => /\ heap[1].isInsideFunction = FALSE
           /\ \A k \in DOMAIN stack :
                  heap[stack[k].v].isInsideFunction
                      = UnderFuncDecl(input[visit.file].ast, stack[k].path)
           /\ (visit.kind = "GenDecl" /\ Len(visit.path) = 1 /\ VisitedNode.tok = "VAR")
                  => /\ visit.recv = 1
                     /\ Len(EmittedWith(GlobalVarMessage)) = Len(Specs(VisitedNode))

C9_Witness ==
    /\ pc = "walk"
    /\ visit.kind = "GenDecl" /\ Len(visit.path) = 1 /\ VisitedNode.tok = "VAR"
    /\ visit.path[1] > 1
    /\ \A m \in 1..(visit.path[1] - 1) : input[visit.file].ast.kids[m].kind = "FuncDecl"
    /\ Len(heap) > 1
    /\ Len(EmittedWith(GlobalVarMessage)) >= 1

\* C10: the invoked function of a go statement has a function signature type,
\* which takes the classifier's fallback verdict, so the visit of a go statement
\* always prints exactly one "calling goroutine on a pointer type" line, first,
\* at the go statement, with the signature as witness.
C10_EverySpawnReported ==
    visit.kind = "GoStmt"
        => /\ Len(EmittedWith(GoOnMessage)) = 1
           /\ Emitted[1].message = GoOnMessage
           /\ Emitted[1].pos = visit.path
           /\ Emitted[1].type = Ty("Signature")

C10_Witness ==
    /\ visit.kind = "GoStmt"
    /\ TypeOf(CallFun(VisitedNode)).k = "Named"
    /\ Len(Emitted) = 1
    /\ Emitted[1].message = GoOnMessage

====
